---- MODULE Spec2Model ----
(***************************************************************************)
(* A model of the dismantler classification engine: the per-byte type map, *)
(* the pre-classification hints, the cross-reference index, the label and  *)
(* port maps, the per-CPU single-instruction decoders and the recursive    *)
(* reachability traversal of rom_base.disassemble.                         *)
(***************************************************************************)
EXTENDS Integers, Sequences, FiniteSets, TLC

VARIABLES
    cpu,            \* which decoder class the instance is ("8080", "1802", "z80")
    rom,            \* self.rom, a sequence of bytes (offset i is rom[i+1])
    base_address,   \* self.base_address
    data_type,      \* self.data_type
    disassembly,    \* self.disassembly
    comments,       \* self.comments: each byte's comment, as the sequence of the
                    \* text fragments appended to it (the string is their concatenation)
    label_map,      \* self.label_map
    port_map,       \* self.port_map
    xref,           \* self.xref
    vector_addrs,   \* self.vector_addrs
    vector_dests,   \* self.vector_dests
    xref_calls,     \* history: the <<source, dest>> of every add_xref call, in call order
    status,         \* "idle", "running" (inside disassemble), "raised", "diverged"
    exc,            \* the exception that ended the last call, or "none"
    args,           \* the arguments of the disassemble() call in progress / last made
    stack,          \* the recursion of disassemble(): one frame per active call
    hints_left,     \* how many more hint calls the client makes
    xrefs_left,     \* how many more add_xref calls the client makes
    fresh_left,     \* how many more decoders the client constructs on the image
    runs,           \* how many disassemble() calls the client has made
    decodes,        \* per offset, the full decodes of it in the current run
    snap,           \* the store when the current/last disassemble() call began
    last            \* what the last step did (the call, its arguments, its result)

vars == <<cpu, rom, base_address, data_type, disassembly, comments, label_map,
          port_map, xref, vector_addrs, vector_dests, xref_calls, status, exc, args,
          stack,
          hints_left, xrefs_left, fresh_left, runs, decodes, snap, last>>

-----------------------------------------------------------------------------
(* Classifications of the contents of a memory location. *)

type_unknown     == "UNKNOWN"
type_instruction == "INSTRUCTION"
type_operand     == "OPERAND"
type_data8       == "DATA8"
type_data16H     == "DATA16H"
type_data16L     == "DATA16L"
type_vector16H   == "VECTOR16H"
type_vector16L   == "VECTOR16L"
type_error       == "ERROR"

valid_types == {type_unknown, type_instruction, type_operand, type_data8,
                type_data16H, type_data16L, type_vector16H, type_vector16L,
                type_error}

data_types == {type_data8, type_data16H, type_data16L, type_vector16H, type_vector16L}

\* type_names[t]: the tags are modelled by their names
type_names(t) == t

\* Python's None, where an address or a vector value is expected
None == -1

rom_len     == Len(rom)
max_address == base_address + rom_len - 1

\* 0-based indexing of the per-byte arrays
At(seq, idx)     == seq[idx + 1]
Put(seq, idx, v) == [seq EXCEPT ![idx + 1] = v]

InRom(idx) == (idx >= 0) /\ (idx < rom_len)

-----------------------------------------------------------------------------
(* util.py: Intel-format hexadecimal constants. *)

HexDigit == <<"0","1","2","3","4","5","6","7","8","9","A","B","C","D","E","F">>

RECURSIVE HexStr(_)
\* '{:X}'.format(n) for n >= 0
HexStr(n) == IF n < 16 THEN HexDigit[n + 1]
             ELSE HexStr(n \div 16) \o HexDigit[(n % 16) + 1]

RECURSIVE NumDigits(_)
NumDigits(n) == IF n < 16 THEN 1 ELSE 1 + NumDigits(n \div 16)

RECURSIVE Zeros(_)
Zeros(k) == IF k <= 0 THEN "" ELSE "0" \o Zeros(k - 1)

\* '{:0wX}'.format(n)
HexPad(n, w) == Zeros(w - NumDigits(n)) \o HexStr(n)

RECURSIVE TopDigit(_)
TopDigit(n) == IF n < 16 THEN n ELSE TopDigit(n \div 16)

\* valstr[0] of '{:0wX}h'.format(n) is a letter A..F
StartsWithLetter(n, w) == (NumDigits(n) >= w) /\ (TopDigit(n) >= 10)

hex8_intel(val) ==
    IF StartsWithLetter(val, 2) THEN "0" \o HexPad(val, 2) \o "h"
    ELSE HexPad(val, 2) \o "h"

hex16_intel(val) ==
    IF StartsWithLetter(val, 4) THEN "0" \o HexPad(val, 4) \o "h"
    ELSE HexPad(val, 4) \o "h"

signed_byte(val) ==
    LET v == val % 256 IN IF v > 127 THEN v - 256 ELSE v

RECURSIVE Spaces(_)
Spaces(k) == IF k <= 0 THEN "" ELSE " " \o Spaces(k - 1)

\* '{:ws}'.format(s): left-justified in a field of width w
PadStr(s, w) == s \o Spaces(w - Len(s))

-----------------------------------------------------------------------------
(* The classification store, as one record, so that a handler's successive *)
(* updates can be chained.                                                 *)

Store == [data_type    |-> data_type,
          disassembly  |-> disassembly,
          comments     |-> comments,
          label_map    |-> label_map,
          port_map     |-> port_map,
          xref         |-> xref,
          vector_addrs |-> vector_addrs,
          vector_dests |-> vector_dests,
          xref_calls   |-> xref_calls]

SetStore(st) ==
    /\ data_type'    = st.data_type
    /\ disassembly'  = st.disassembly
    /\ comments'     = st.comments
    /\ label_map'    = st.label_map
    /\ port_map'     = st.port_map
    /\ xref'         = st.xref
    /\ vector_addrs' = st.vector_addrs
    /\ vector_dests' = st.vector_dests
    /\ xref_calls'   = st.xref_calls

SeqContains(s, v) == \E i \in 1..Len(s) : s[i] = v

\* comments[idx] += line
AddComment(st, idx, line) ==
    [st EXCEPT !.comments = Put(@, idx, Append(At(@, idx), line))]

SetType(st, idx, t) == [st EXCEPT !.data_type = Put(@, idx, t)]

WarningLine(old, new, access_addr) ==
    IF access_addr = None
    THEN "WARNING: Changed type " \o type_names(old) \o "->" \o type_names(new) \o ". "
    ELSE "WARNING: Access from " \o hex16_intel(access_addr) \o " changed type "
         \o type_names(old) \o "->" \o type_names(new) \o ". "

\* _set_data8_intel warning of every tag but UNKNOWN, DATA8 included: the
\* variant C12 is tested against.
set_data8_rewarn(st, address, access_addr) ==
    LET idx == address - base_address IN
    IF InRom(idx)
    THEN LET old == At(st.data_type, idx)
             s1  == IF old # type_unknown
                    THEN AddComment(st, idx, WarningLine(old, type_data8, access_addr))
                    ELSE st
         IN SetType(s1, idx, type_data8)
    ELSE st

\* rom_base._set_data8_intel
set_data8(st, address, access_addr) ==
    LET idx == address - base_address IN
    IF InRom(idx)
    THEN LET old == At(st.data_type, idx)
             s1  == IF (old # type_unknown) /\ (old # type_data8)
                    THEN AddComment(st, idx, WarningLine(old, type_data8, access_addr))
                    ELSE st
         IN SetType(s1, idx, type_data8)
    ELSE st

\* SetHalf without its range test, an offset outside the ROM wrapping around
\* into it: the variant C10 is tested against.
SetHalfWrapped(st, idx, t) == SetType(st, idx % rom_len, t)

\* One half of rom_base._set_data16_le_intel / _set_vector16_le_intel: the warning
\* line is computed but never appended to the comment; only the tag is written.
SetHalf(st, idx, t) == IF InRom(idx) THEN SetType(st, idx, t) ELSE st

\* a 16-bit hint that tags the byte after the word as well
set_data16_three(st, address, access_addr) ==
    LET idx == address - base_address
    IN SetHalf(SetHalf(SetHalf(st, idx, type_data16L), idx + 1, type_data16H),
               idx + 2, type_data16H)

\* rom_base._set_data16_le_intel
set_data16(st, address, access_addr) ==
    LET idx == address - base_address
    IN SetHalf(SetHalf(st, idx, type_data16L), idx + 1, type_data16H)

\* rom_base._set_vector16_le_intel: returns the store and the vector read
set_vector(st, address, access_addr) ==
    LET idx == address - base_address
        s0  == IF SeqContains(st.vector_addrs, address) THEN st
               ELSE [st EXCEPT !.vector_addrs = Append(@, address)]
        s1  == SetHalf(s0, idx, type_vector16L)
        v1  == IF InRom(idx) THEN At(rom, idx) ELSE None
        s2  == SetHalf(s1, idx + 1, type_vector16H)
        v2  == IF InRom(idx + 1) /\ (v1 # None) THEN v1 + (At(rom, idx + 1) * 256) ELSE v1
        s3  == IF (v2 # None) /\ ~SeqContains(s2.vector_dests, v2)
               THEN [s2 EXCEPT !.vector_dests = Append(@, v2)]
               ELSE s2
    IN [st |-> s3, vector |-> v2]

\* rom_base.add_xref (the call is also entered in the history)
add_xref(st0, source, dest) ==
    LET st == [st0 EXCEPT !.xref_calls = Append(@, <<source, dest>>)] IN
    IF dest \in DOMAIN st.xref
    THEN IF ~SeqContains(st.xref[dest], dest)
         THEN [st EXCEPT !.xref = [@ EXCEPT ![dest] = Append(@, source)]]
         ELSE st
    ELSE [st EXCEPT !.xref = [d \in (DOMAIN @) \cup {dest} |->
                                 IF d = dest THEN <<source>> ELSE @[d]]]

-----------------------------------------------------------------------------
(* Label and port lookup. *)

default_labels_8080 == [a \in {0, 8, 16, 24, 32, 40, 48, 56} |->
                           "RST" \o HexStr(a \div 8)]
default_labels_1802 == [a \in {0} |-> "RESET"]
default_labels_z80  == [a \in {0, 8, 16, 24, 32, 40, 48, 56, 102} |->
                           IF a = 102 THEN "NMI" ELSE "RST" \o HexPad(a, 2)]

\* the class attribute special_labels of the decoder class
special_labels ==
    CASE cpu = "8080" -> default_labels_8080
      [] cpu = "1802" -> default_labels_1802
      [] OTHER        -> default_labels_z80

\* rom_base.special_ports
special_ports == [p \in {} |-> ""]

\* _lookup_a16_intel creating the missing label whether or not create_label
\* is set: the variant C17 is tested against.
lookup_a16_always(st, address, create_label, prefix) ==
    IF address \in DOMAIN st.label_map
    THEN [st |-> st, name |-> st.label_map[address]]
    ELSE LET label == IF address \in DOMAIN special_labels
                      THEN special_labels[address]
                      ELSE prefix \o HexPad(address, 4)
         IN [st   |-> [st EXCEPT !.label_map =
                          [a \in (DOMAIN @) \cup {address} |->
                              IF a = address THEN label ELSE @[a]]],
             name |-> label]

\* _lookup_a16_intel creating the label whenever create_label is set, over
\* an existing entry too: the variant C16 is tested against.
lookup_a16_overwrite(st, address, create_label, prefix) ==
    IF create_label
    THEN LET label == IF address \in DOMAIN special_labels
                      THEN special_labels[address]
                      ELSE prefix \o HexPad(address, 4)
         IN [st   |-> [st EXCEPT !.label_map =
                          [a \in (DOMAIN @) \cup {address} |->
                              IF a = address THEN label ELSE @[a]]],
             name |-> label]
    ELSE IF address \in DOMAIN st.label_map
    THEN [st |-> st, name |-> st.label_map[address]]
    ELSE [st |-> st, name |-> hex16_intel(address)]

\* rom_base._lookup_a16_intel: returns the store and the name
lookup_a16(st, address, create_label, prefix) ==
    IF address \in DOMAIN st.label_map
    THEN [st |-> st, name |-> st.label_map[address]]
    ELSE IF create_label
    THEN LET label == IF address \in DOMAIN special_labels
                      THEN special_labels[address]
                      ELSE prefix \o HexPad(address, 4)
         IN [st   |-> [st EXCEPT !.label_map =
                          [a \in (DOMAIN @) \cup {address} |->
                              IF a = address THEN label ELSE @[a]]],
             name |-> label]
    ELSE [st |-> st, name |-> hex16_intel(address)]

\* rom_base._lookup_port8_intel: returns the store and the name
lookup_port8(st, port, create_label, prefix) ==
    IF port \in DOMAIN st.port_map
    THEN [st |-> st, name |-> st.port_map[port]]
    ELSE IF create_label
    THEN LET label == IF port \in DOMAIN special_ports
                      THEN special_ports[port]
                      ELSE prefix \o HexPad(port, 2)
         IN [st   |-> [st EXCEPT !.port_map =
                          [a \in (DOMAIN @) \cup {port} |->
                              IF a = port THEN label ELSE @[a]]],
             name |-> label]
    ELSE [st |-> st, name |-> hex8_intel(port)]

-----------------------------------------------------------------------------
(* What a disasm_single call gives back: the store it leaves, the list of  *)
(* successor addresses it returns, and the exception it raised, if any     *)
(* (then there is no returned list).                                       *)

Ret(st, next)    == [st |-> st, next |-> next, exc |-> "none"]
Raise(st, e)     == [st |-> st, next |-> <<>>, exc |-> e]

SetText(st, idx, text) == [st EXCEPT !.disassembly = Put(@, idx, text)]

\* the operand word read high byte first
WordBE(idx) == (At(rom, idx + 1) * 256) + At(rom, idx + 2)

\* the little-endian word that follows the opcode
WordLE(idx) == At(rom, idx + 1) + (At(rom, idx + 2) * 256)

\* data_type[idx+1] = data_type[idx+2] = type_operand
Operands2(st, idx) == SetType(SetType(st, idx + 1, type_operand), idx + 2, type_operand)

PreambleSilent(st, idx) == SetType(st, idx, type_instruction)

\* The set/check classification preamble of disasm_single, after the test for
\* an already disassembled location: the warnings, then the INSTRUCTION tag.
Preamble(st, idx) ==
    LET t  == At(st.data_type, idx)
        s1 == IF t = type_operand
              THEN AddComment(st, idx, "WARNING: Disassembling an operand. ") ELSE st
        s2 == IF t \in data_types
              THEN AddComment(s1, idx, "WARNING: Disassembling data. ") ELSE s1
        s3 == IF t = type_error
              THEN AddComment(s2, idx, "WARNING: Disassembling location flagged as error. ")
              ELSE s2
    IN SetType(s3, idx, type_instruction)

-----------------------------------------------------------------------------
(* rom_8080.disasm_single *)

alu_8080  == <<"ADD", "ADC", "SUB ", "SBC", "ANA", "XRA", "ORA", "CMP">>
alui_8080 == <<"ADI", "ACI", "SUI ", "SBI", "ANI", "XRI", "ORI", "CPI">>
cc_8080   == <<"NZ", "Z", "NC", "C", "PO", "PE", "P", "M">>
r_8080    == <<"B", "C", "D", "E", "H", "L", "M", "A">>
rp_8080   == <<"B", "D", "H", "SP">>
rp2_8080  == <<"B", "D", "H", "PSW">>
acc_8080  == <<"RLC", "RRC", "RAL", "RAR", "DAA", "CMA", "STC", "CMC">>
misc_8080 == <<"XTHL", "XCHG", "DI", "EI">>

\* The successors of the 8080's invalid opcodes in the x = 0, z = 0 group
InvalidNext_8080(address) == <<address + 1>>

\* The decode of a location that is not yet tagged INSTRUCTION
decode_8080(st0, address, create_label) ==
    LET idx    == address - base_address
        st     == Preamble(st0, idx)
        opcode == At(rom, idx)
        x      == (opcode \div 64) % 4
        y      == (opcode \div 8) % 8
        z      == opcode % 8
        p      == y \div 2
        q      == y % 2
        \* an operand byte beyond the end of the ROM: rom[idx+n] or
        \* data_type[idx+n] = ... raises IndexError before any other effect
        Short  == Raise(st, "IndexError")
        Simple(text, next) == Ret(SetText(st, idx, text), next)
        Invalid(next) ==
            Ret(SetType(AddComment(st, idx,
                    "ERROR: invalid opcode " \o hex8_intel(opcode) \o " "),
                    idx, type_error), next)
        \* one immediate byte
        Imm8(text) ==
            IF ~InRom(idx + 1) THEN Short
            ELSE Ret(SetText(SetType(st, idx + 1, type_operand), idx,
                             text \o hex8_intel(At(rom, idx + 1))),
                     <<address + 2>>)
        \* one port number
        Port(text) ==
            IF ~InRom(idx + 1) THEN Short
            ELSE LET lk == lookup_port8(SetType(st, idx + 1, type_operand),
                                        At(rom, idx + 1), create_label, "P_")
                 IN Ret(SetText(lk.st, idx, text \o lk.name), <<address + 2>>)
        word   == WordLE(idx)
        \* a 16-bit address operand, looked up with a label prefix
        Labelled(text, prefix) ==
            LET lk == lookup_a16(Operands2(st, idx), word, create_label, prefix)
            IN SetText(lk.st, idx, text \o lk.name)
        Data16(text) ==
            IF ~InRom(idx + 2) THEN Short
            ELSE Ret(set_data16(Labelled(text, "D_"), word, address), <<address + 3>>)
        Data8(text) ==
            IF ~InRom(idx + 2) THEN Short
            ELSE Ret(set_data8(Labelled(text, "D_"), word, address), <<address + 3>>)
        Branch(text, prefix) ==
            IF ~InRom(idx + 2) THEN Short
            ELSE Ret(add_xref(Labelled(text, prefix), address, word),
                     <<address + 3, word>>)
    IN
    CASE x = 0 ->
           (CASE z = 0 -> IF y = 0 THEN Simple("NOP", <<address + 1>>)
                          ELSE Invalid(InvalidNext_8080(address))
              [] z = 1 -> IF q = 0
                          THEN IF ~InRom(idx + 2) THEN Short
                               ELSE Ret(SetText(Operands2(st, idx), idx,
                                        "LXI  " \o rp_8080[p + 1] \o ", " \o hex16_intel(word)),
                                        <<address + 3>>)
                          ELSE Simple("DAD  " \o rp_8080[p + 1], <<address + 1>>)
              [] z = 2 -> IF q = 0
                          THEN IF p <= 1 THEN Simple("STAX " \o rp_8080[p + 1], <<address + 1>>)
                               ELSE IF p = 2 THEN Data16("SHLD ")
                               ELSE Data8("STA  ")
                          ELSE IF p <= 1 THEN Simple("LDAX " \o rp_8080[p + 1], <<address + 1>>)
                               ELSE IF p = 2 THEN Data16("LHLD ")
                               ELSE Data8("LDA  ")
              [] z = 3 -> IF q = 0 THEN Simple("INX  " \o rp_8080[p + 1], <<address + 1>>)
                          ELSE Simple("DCX  " \o rp_8080[p + 1], <<address + 1>>)
              [] z = 4 -> Simple("INR  " \o r_8080[y + 1], <<address + 1>>)
              [] z = 5 -> Simple("DCR  " \o r_8080[y + 1], <<address + 1>>)
              [] z = 6 -> Imm8("MVI  " \o r_8080[y + 1] \o ", ")
              [] OTHER -> Simple(acc_8080[y + 1], <<address + 1>>))
      [] x = 1 ->
           IF (z = 6) /\ (y = 6) THEN Simple("HLT", <<address + 1>>)
           ELSE Simple("MOV  " \o r_8080[y + 1] \o ", " \o r_8080[z + 1], <<address + 1>>)
      [] x = 2 ->
           Simple(PadStr(alu_8080[y + 1], 4) \o " " \o r_8080[z + 1], <<address + 1>>)
      [] OTHER ->
           (CASE z = 0 -> Simple("R" \o cc_8080[y + 1], <<address + 1>>)
              [] z = 1 -> IF q = 0 THEN Simple("POP  " \o rp2_8080[p + 1], <<address + 1>>)
                          ELSE IF p = 0 THEN Simple("RET", <<>>)
                          ELSE IF p = 1 THEN Invalid(<<>>)
                          ELSE IF p = 2 THEN Simple("PCHL", <<>>)
                          ELSE Simple("SPHL", <<address + 1>>)
              [] z = 2 -> Branch("J" \o PadStr(cc_8080[y + 1], 2) \o "  ", "J_")
              [] z = 3 -> IF y = 0
                          THEN IF ~InRom(idx + 2) THEN Short
                               ELSE Ret(Labelled("JMP  ", "J_"), <<word>>)
                          ELSE IF y = 1 THEN Invalid(<<>>)
                          ELSE IF y = 2 THEN Port("OUT  ")
                          ELSE IF y = 3 THEN Port("IN   ")
                          ELSE Simple(misc_8080[y - 3], <<address + 1>>)
              [] z = 4 -> Branch("C" \o PadStr(cc_8080[y + 1], 2) \o "  ", "C_")
              [] z = 5 -> IF q = 0 THEN Simple("PUSH " \o rp2_8080[p + 1], <<address + 1>>)
                          ELSE IF p = 0 THEN Branch("CALL ", "C_")
                          ELSE Invalid(<<>>)
              [] z = 6 -> Imm8(PadStr(alui_8080[y + 1], 4) \o " ")
              [] OTHER -> Ret(add_xref(SetText(st, idx, "RST  " \o ToString(y)),
                                       address, y * 8),
                              <<y * 8>>))

-----------------------------------------------------------------------------
(* rom_1802.disasm_single *)

op3x_1802 == <<"BR", "BQ", "BZ", "BDF", "B1", "B2", "B3", "B4",
               "SKP", "BNQ", "BNZ", "BNF", "BN1", "BN2", "BN3", "BN4">>
op7x_1802 == <<"RET", "DIS", "LDXA", "STXD", "ADC", "SDB", "SHRC", "SMB",
               "SAV", "MARK", "SEQ", "REQ", "ADDI", "SDBI", "SHLC", "SMBI">>
opCx_1802 == <<"LBR", "LBQ", "LBZ", "LBDF", "NOP", "LSNQ", "LSNZ", "LSNF",
               "LSKP", "LBNQ", "LBNZ", "LBNF", "LSIE", "LSQ", "LSZ", "LSDF">>
opFx_1802 == <<"LDX", "OR", "AND", "XOR", "ADD", "SD", "SHR", "SM",
               "LDI", "ORI", "ANI", "XRI", "ADI", "SDI", "SHL", "SMI">>
reg_1802  == <<"LDN  R", "INC  R", "DEC  R", "", "LDA  R", "STR  R", "", "",
               "GLO  R", "GHI  R", "PLO  R", "PHI  R", "", "SEP  R", "SEX  R">>

\* The successors of the 1802's reserved opcode 68h
InvalidNext_1802(address) == <<>>

\* the short branch taken from a page other than the operand byte's
branch_page_of_opcode(address) == (address \div 256) * 256

\* The page of a short branch's target: that of its operand byte
branch_page(address) == ((address + 1) \div 256) * 256

decode_1802(st0, address, create_label) ==
    LET idx    == address - base_address
        st     == Preamble(st0, idx)
        opcode == At(rom, idx)
        I      == (opcode \div 16) % 16
        N      == opcode % 16
        Short  == Raise(st, "IndexError")
        Simple(text, next) == Ret(SetText(st, idx, text), next)
        Reg(next) == Simple(reg_1802[I + 1] \o HexStr(N), next)
        \* short branch: the target is in the page of the operand byte
        page   == branch_page(address)
        target == page + At(rom, idx + 1)
        Short3(next) ==
            LET lk == lookup_a16(st, target, create_label, "J_")
            IN Ret(SetType(SetText(lk.st, idx, PadStr(op3x_1802[N + 1], 4) \o " " \o lk.name),
                           idx + 1, type_operand), next)
        Imm8(op) ==
            IF ~InRom(idx + 1) THEN Short
            ELSE Ret(SetType(SetText(st, idx, PadStr(op, 4) \o " "
                                              \o hex8_intel(At(rom, idx + 1))),
                             idx + 1, type_operand), <<address + 2>>)
        \* long branch: big-endian target; the first operand byte is tagged
        \* before the second one is reached
        ltarget == (At(rom, idx + 1) * 256) + At(rom, idx + 2)
        Long(next) ==
            IF ~InRom(idx + 1) THEN Short
            ELSE IF ~InRom(idx + 2)
            THEN Raise(SetType(st, idx + 1, type_operand), "IndexError")
            ELSE LET lk == lookup_a16(Operands2(st, idx), ltarget, create_label, "J_")
                 IN Ret(SetText(lk.st, idx, PadStr(opCx_1802[N + 1], 4) \o " " \o lk.name),
                        next)
        PortOp(text, port) ==
            LET lk == lookup_port8(st, port, create_label, "P_")
            IN Ret(SetText(lk.st, idx, text \o lk.name), <<address + 1>>)
    IN
    CASE I = 0 -> IF N = 0 THEN Simple("IDL", <<address + 1>>)
                  ELSE Simple("LDN  R" \o HexStr(N), <<address + 1>>)
      [] I = 3 -> IF ~InRom(idx + 1) THEN Short
                  ELSE IF N = 0 THEN Short3(<<target>>)
                  ELSE IF N = 8 THEN Simple(op3x_1802[N + 1], <<address + 2>>)
                  ELSE Short3(<<address + 2, target>>)
      [] I = 6 -> IF N = 0 THEN Simple("IRX", <<address + 1>>)
                  ELSE IF N <= 7 THEN PortOp("OUT  ", N)
                  ELSE IF N = 8
                  THEN Ret(AddComment(SetType(st, idx, type_error), idx,
                                      "ERROR: Reserved Opcode "),
                           InvalidNext_1802(address))
                  ELSE PortOp("INP  ", N % 8)
      [] I = 7 -> IF (N <= 11) \/ (N = 14) THEN Simple(op7x_1802[N + 1], <<address + 1>>)
                  ELSE Imm8(op7x_1802[N + 1])
      [] I = 12 -> IF N = 0 THEN Long(<<ltarget>>)
                   ELSE IF N <= 3 THEN Long(<<address + 3, ltarget>>)
                   ELSE IF N = 4 THEN Simple(opCx_1802[N + 1], <<address + 1>>)
                   ELSE IF N <= 7 THEN Simple(opCx_1802[N + 1], <<address + 3, address + 1>>)
                   ELSE IF N = 8 THEN Simple(opCx_1802[N + 1], <<address + 3>>)
                   ELSE IF N <= 11 THEN Long(<<address + 3, ltarget>>)
                   ELSE Simple(opCx_1802[N + 1], <<address + 3, address + 1>>)
      [] I = 13 -> Reg(<<>>)
      [] I = 15 -> IF (N <= 7) \/ (N = 14) THEN Simple(opFx_1802[N + 1], <<address + 1>>)
                   ELSE Imm8(opFx_1802[N + 1])
      [] OTHER  -> Reg(<<address + 1>>)

-----------------------------------------------------------------------------
(* rom_z80.disasm_single *)

alu_z80  == <<"ADD  A, ", "ADC  A, ", "SUB  ", "SBC  A, ", "AND  ", "XOR  ", "OR   ", "CP   ">>
cc_z80   == <<"NZ", "Z", "NC", "C", "PO", "PE", "P", "M">>
im_z80   == <<"0", "0/1", "1", "2", "0", "0/1", "1", "2">>
r_z80    == <<"B", "C", "D", "E", "H", "L", "(HL)", "A">>
rot_z80  == <<"RLC", "RRC", "RL", "RR", "SLA", "SRA", "SLL", "SRL">>
rp_z80   == <<"BC", "DE", "HL", "SP">>
rp2_z80  == <<"BC", "DE", "HL", "AF">>
acc_z80  == <<"RLCA", "RRCA", "RLA", "RRA", "DAA", "CPL", "SCF", "CCF">>
misc_z80 == <<"EX   (SP), HL", "EX   DE, HL", "DI", "EI">>
edm_z80  == <<"LD   I, A", "LD   R, A", "LD   A, I", "LD   A, R", "RRD", "RLD", "NOP", "NOP">>

\* The successors of the Z80's invalid ED-prefixed opcodes
InvalidNext_z80(address) == <<address + 2>>

\* The ED-prefixed instructions; st has the prefix tagged INSTRUCTION
decode_z80_ED(st, address, create_label, y) ==
    LET idx     == address - base_address
        opcode2 == At(rom, idx + 1)
        x2      == (opcode2 \div 64) % 4
        y2      == (opcode2 \div 8) % 8
        z2      == opcode2 % 8
        p2      == y2 \div 2
        q2      == y2 % 2
        s1      == SetType(st, idx + 1, type_operand)
        Simple(text, next) == Ret(SetText(s1, idx, text), next)
        Invalid ==
            LET c1 == AddComment(s1, idx, "ERROR: invalid opcode ED"
                                          \o hex8_intel(opcode2) \o " ")
                c2 == [c1 EXCEPT !.comments = Put(@, idx + 1, At(@, idx))]
            IN Ret(SetType(SetType(c2, idx, type_error), idx + 1, type_error),
                   InvalidNext_z80(address))
        word    == At(rom, idx + 2) + (At(rom, idx + 3) * 256)
    IN
    IF ~InRom(idx + 1) THEN Raise(st, "IndexError")
    ELSE IF (x2 = 0) \/ (x2 = 3) THEN Invalid
    ELSE IF x2 = 1
    THEN CASE z2 = 0 -> IF y2 = 6 THEN Simple("IN   (C)", <<address + 2>>)
                        ELSE Simple("IN   " \o r_z80[y2 + 1] \o ", (C)", <<address + 2>>)
           [] z2 = 1 -> IF y2 = 6 THEN Simple("OUT  (C), 0", <<address + 2>>)
                        ELSE Simple("OUT  (C), " \o r_z80[y2 + 1], <<address + 2>>)
           [] z2 = 2 -> IF q2 = 0 THEN Simple("SBC  HL, " \o rp_z80[p2 + 1], <<address + 2>>)
                        ELSE Simple("ADC  HL, " \o rp_z80[p2 + 1], <<address + 2>>)
           [] z2 = 3 -> IF ~InRom(idx + 3) THEN Raise(s1, "IndexError")
                        \* self.lookup_a16_intel is not defined
                        ELSE Raise(set_data16(SetType(SetType(s1, idx + 2, type_operand),
                                                      idx + 3, type_operand),
                                              word, address), "AttributeError")
           [] z2 = 4 -> Simple("NEG", <<address + 2>>)
           [] z2 = 5 -> IF y = 1 THEN Simple("RETI", <<>>) ELSE Simple("RETN", <<>>)
           [] z2 = 6 -> Simple("IM   " \o im_z80[y2 + 1], <<>>)
           [] OTHER  -> Simple(edm_z80[y2 + 1], <<address + 2>>)
    ELSE IF (z2 <= 3) /\ (y2 >= 4)
    THEN Raise(s1, "TypeError")      \* _bli[y2-4, z2] indexes a list by a tuple
    ELSE Invalid

decode_z80(st0, address, create_label) ==
    LET idx    == address - base_address
        st     == Preamble(st0, idx)
        opcode == At(rom, idx)
        x      == (opcode \div 64) % 4
        y      == (opcode \div 8) % 8
        z      == opcode % 8
        p      == y \div 2
        q      == y % 2
        Short  == Raise(st, "IndexError")
        Simple(text, next) == Ret(SetText(st, idx, text), next)
        Imm8(text) ==
            IF ~InRom(idx + 1) THEN Short
            ELSE Ret(SetText(SetType(st, idx + 1, type_operand), idx,
                             text \o hex8_intel(At(rom, idx + 1))),
                     <<address + 2>>)
        \* forms that call self.lookup_a16_intel or self.lookup_port8_intel,
        \* neither of which is defined: the operands are tagged, then the
        \* call raises AttributeError
        NoLookup1 ==
            IF ~InRom(idx + 1) THEN Short
            ELSE Raise(SetType(st, idx + 1, type_operand), "AttributeError")
        NoLookup2 ==
            IF ~InRom(idx + 2) THEN Short
            ELSE Raise(Operands2(st, idx), "AttributeError")
        word   == WordLE(idx)
        \* the CB-prefixed instructions; BIT, RES and SET print the y of the prefix
        opcode2 == At(rom, idx + 1)
        x2      == (opcode2 \div 64) % 4
        y2      == (opcode2 \div 8) % 8
        z2      == opcode2 % 8
        CB ==
            IF ~InRom(idx + 1) THEN Short
            ELSE Ret(SetText(SetType(st, idx + 1, type_operand), idx,
                       CASE x2 = 0 -> PadStr(rot_z80[y2 + 1], 4) \o " " \o r_z80[z2 + 1]
                         [] x2 = 1 -> "BIT  " \o ToString(y) \o ", " \o r_z80[z2 + 1]
                         [] x2 = 2 -> "RES  " \o ToString(y) \o ", " \o r_z80[z2 + 1]
                         [] OTHER  -> "SET  " \o ToString(y) \o ", " \o r_z80[z2 + 1]),
                     <<address + 2>>)
    IN
    CASE x = 0 ->
           (CASE z = 0 -> IF y = 0 THEN Simple("NOP", <<address + 1>>)
                          ELSE IF y = 1 THEN Simple("EX   AF, AF'", <<address + 1>>)
                          ELSE NoLookup1
              [] z = 1 -> IF q = 0
                          THEN IF ~InRom(idx + 2) THEN Short
                               ELSE Ret(SetText(Operands2(st, idx), idx,
                                        "LD   " \o rp_z80[p + 1] \o ", " \o hex16_intel(word)),
                                        <<address + 3>>)
                          ELSE Simple("ADD  HL, " \o rp_z80[p + 1], <<address + 1>>)
              [] z = 2 -> IF p <= 1
                          THEN IF q = 0
                               THEN Simple("LD   (" \o rp_z80[p + 1] \o "), A", <<address + 1>>)
                               ELSE Simple("LD   A, (" \o rp_z80[p + 1] \o ")", <<address + 1>>)
                          ELSE NoLookup2
              [] z = 3 -> IF q = 0 THEN Simple("INC  " \o rp_z80[p + 1], <<address + 1>>)
                          ELSE Simple("DEC  " \o rp_z80[p + 1], <<address + 1>>)
              [] z = 4 -> Simple("INC  " \o r_z80[y + 1], <<address + 1>>)
              [] z = 5 -> Simple("DEC  " \o r_z80[y + 1], <<address + 1>>)
              [] z = 6 -> Imm8("LD   " \o r_z80[y + 1] \o ", ")
              [] OTHER -> Simple(acc_z80[y + 1], <<address + 1>>))
      [] x = 1 ->
           IF (z = 6) /\ (y = 6) THEN Simple("HALT", <<address + 1>>)
           ELSE Simple("LD   " \o r_z80[y + 1] \o ", " \o r_z80[z + 1], <<address + 1>>)
      [] x = 2 ->
           Simple(alu_z80[y + 1] \o r_z80[z + 1], <<address + 1>>)
      [] OTHER ->
           (CASE z = 0 -> Simple("RET  " \o cc_z80[y + 1], <<address + 1>>)
              [] z = 1 -> IF q = 0 THEN Simple("POP  " \o rp2_z80[p + 1], <<address + 1>>)
                          ELSE IF p = 0 THEN Simple("RET", <<>>)
                          ELSE IF p = 1 THEN Simple("EXX", <<address + 1>>)
                          ELSE IF p = 2 THEN Simple("JP   HL", <<>>)
                          ELSE Simple("LD   SP, HL", <<address + 1>>)
              [] z = 2 -> NoLookup2
              [] z = 3 -> IF y = 0 THEN NoLookup2
                          ELSE IF y = 1 THEN CB
                          ELSE IF y <= 3 THEN NoLookup1
                          ELSE Simple(misc_z80[y - 3], <<address + 1>>)
              [] z = 4 -> NoLookup2
              [] z = 5 -> IF q = 0 THEN Simple("PUSH " \o rp2_z80[p + 1], <<address + 1>>)
                          ELSE IF p = 0 THEN NoLookup2
                          ELSE IF p = 2 THEN decode_z80_ED(st, address, create_label, y)
                          ELSE Raise(st, "NotImplementedError")
              [] z = 6 -> Imm8(alu_z80[y + 1])
              [] OTHER -> Simple("RST  " \o ToString(y * 8), <<y * 8>>))

\* disasm_single of the instance's class: a location already tagged
\* INSTRUCTION is not decoded again
\* disasm_single without its test for a location already disassembled
disasm_single_again(st, address, create_label) ==
    CASE cpu = "8080" -> decode_8080(st, address, create_label)
      [] cpu = "1802" -> decode_1802(st, address, create_label)
      [] OTHER        -> decode_z80(st, address, create_label)

disasm_single(st, address, create_label) ==
    IF At(st.data_type, address - base_address) = type_instruction THEN Ret(st, <<>>)
    ELSE CASE cpu = "8080" -> decode_8080(st, address, create_label)
           [] cpu = "1802" -> decode_1802(st, address, create_label)
           [] OTHER        -> decode_z80(st, address, create_label)

-----------------------------------------------------------------------------
(* rom_base.disassemble: the recursive traversal.  One frame of the stack   *)
(* is one active call: the entries it has yet to visit, and the decode      *)
(* (address, type map before it) whose successor list the call was given.   *)

NoRange == <<>>     \* valid_range=None

Arguments(entries, create_labels, single_step, valid_range, breakpoints, vectors) ==
    [entries |-> entries, create_labels |-> create_labels, single_step |-> single_step,
     valid_range |-> valid_range, breakpoints |-> breakpoints, vectors |-> vectors]

valid_min(a) == IF a.valid_range = NoRange THEN base_address ELSE a.valid_range[1]
valid_max(a) == IF a.valid_range = NoRange THEN max_address ELSE a.valid_range[2]

\* The loop condition without its breakpoints test: the variant C13 is
\* tested against.
EligibleAtBreakpoint(a, entry) ==
    /\ entry # None
    /\ entry >= valid_min(a)
    /\ entry <= valid_max(a)

\* (entry>=valid_min) and (entry<=valid_max) and (entry not in breakpoints);
\* a None among the vector pointers compares below every integer
Eligible(a, entry) ==
    /\ entry # None
    /\ entry >= valid_min(a)
    /\ entry <= valid_max(a)
    /\ entry \notin a.breakpoints

RECURSIVE SkipIneligible(_, _)
SkipIneligible(a, pending) ==
    IF pending = <<>> THEN <<>>
    ELSE IF Eligible(a, Head(pending)) THEN pending
    ELSE SkipIneligible(a, Tail(pending))

\* A recursive call that visits only the first address of the list it is
\* given: the variant C14 is tested against.
FrameFirst(pending, addr, dt) ==
    [pending |-> IF pending = <<>> THEN <<>> ELSE <<Head(pending)>>,
     addr |-> addr, dt |-> dt]

\* A recursive call that visits the list it is given last address first
FrameReversed(pending, addr, dt) ==
    [pending |-> [i \in 1..Len(pending) |-> pending[Len(pending) + 1 - i]],
     addr |-> addr, dt |-> dt]

Frame(pending, addr, dt) == [pending |-> pending, addr |-> addr, dt |-> dt]

\* Loop iterations whose condition is false change nothing, and a call whose
\* loop is exhausted returns: the stack is kept with an eligible entry on top.
RECURSIVE Unwind(_, _)
Unwind(a, stk) ==
    IF stk = <<>> THEN <<>>
    ELSE LET n   == Len(stk)
             top == stk[n]
             p   == SkipIneligible(a, top.pending)
         IN IF p = <<>> THEN Unwind(a, SubSeq(stk, 1, n - 1))
            ELSE Append(SubSeq(stk, 1, n - 1), [top EXCEPT !.pending = p])

\* The decode about to be made repeats a decode that is still active on the
\* recursion path.  The successors and the type map after a decode are a
\* function of the ROM, the address and the type map before it, so the calls
\* between the two decodes repeat without end: the recursion never returns.
Recurs(stk, entry, dt) ==
    \E i \in 1..Len(stk) : (stk[i].addr = entry) /\ (stk[i].dt = dt)

\* The vectors loop of disassemble()
RECURSIVE VectorLoop(_, _, _, _)
VectorLoop(st, vectors, create_labels, vecptrs) ==
    IF vectors = <<>> THEN [st |-> st, vecptrs |-> vecptrs, exc |-> "none"]
    ELSE LET r == set_vector(st, Head(vectors), None) IN
         IF ~create_labels
         THEN VectorLoop(r.st, Tail(vectors), create_labels, Append(vecptrs, r.vector))
         ELSE IF r.vector = None
         \* lookup_address(None, True, 'V_'): '{:04X}'.format(None) raises
         THEN [st |-> r.st, vecptrs |-> Append(vecptrs, r.vector), exc |-> "ValueError"]
         ELSE VectorLoop(lookup_a16(r.st, r.vector, TRUE, "V_").st, Tail(vectors),
                         create_labels, Append(vecptrs, r.vector))

Did(op, address, source, old, next, e) ==
    [op |-> op, address |-> address, source |-> source, old |-> old,
     next |-> next, exc |-> e]

TagAt(address) ==
    IF InRom(address - base_address) THEN At(data_type, address - base_address) ELSE "NONE"

Zeroes == [i \in 1..rom_len |-> 0]

-----------------------------------------------------------------------------
(* rom_base._listing_a16_d8_intel, as far as the store and the exceptions   *)
(* go: the bytes each line covers, the label lookups it makes and the       *)
(* exception that ends it.  The text of the lines is not modelled.          *)

\* lookup_address: rom_8080 and rom_1802 call _lookup_a16_intel; rom_z80 does
\* not define it, and the base class raises
lookup_address(st, address, create_label, prefix) ==
    IF cpu = "z80" THEN [st |-> st, name |-> "", exc |-> "NotImplementedError"]
    ELSE LET r == lookup_a16(st, address, create_label, prefix)
         IN [st |-> r.st, name |-> r.name, exc |-> "none"]

\* a line that takes in one operand byte at most
RECURSIVE OperandRunOne(_, _, _)
OperandRunOne(st, idx, n) ==
    IF (n < 2) /\ InRom(idx + n) /\ (At(st.data_type, idx + n) = type_operand)
    THEN OperandRunOne(st, idx, n + 1)
    ELSE n

\* The operand bytes the line of the instruction at idx takes in, from idx + n
RECURSIVE OperandRun(_, _, _)
OperandRun(st, idx, n) ==
    IF InRom(idx + n) /\ (At(st.data_type, idx + n) = type_operand)
    THEN OperandRun(st, idx, n + 1)
    ELSE n

\* The while loop of the code listing, from offset idx on
RECURSIVE ListingLines(_, _)
ListingLines(st, idx) ==
    IF ~InRom(idx) THEN [st |-> st, exc |-> "none"]
    ELSE LET t == At(st.data_type, idx) IN
         IF t = type_instruction
         THEN ListingLines(st, idx + OperandRun(st, idx, 1))
         ELSE IF t = type_data8
         THEN ListingLines(st, idx + 1)
         ELSE IF t \in {type_data16L, type_vector16L}
         THEN \* self.data_type[idx+1] is read without a range test
              IF ~InRom(idx + 1) THEN [st |-> st, exc |-> "IndexError"]
              ELSE IF (t = type_data16L) /\ (At(st.data_type, idx + 1) = type_data16H)
              THEN ListingLines(st, idx + 2)
              ELSE IF (t = type_vector16L) /\ (At(st.data_type, idx + 1) = type_vector16H)
              THEN LET r == lookup_address(st, At(rom, idx) + (At(rom, idx + 1) * 256),
                                           FALSE, "L_")
                   IN IF r.exc # "none" THEN [st |-> r.st, exc |-> r.exc]
                      ELSE ListingLines(r.st, idx + 2)
              ELSE ListingLines(st, idx + 1)
         ELSE ListingLines(st, idx + 1)

\* The lines of the code listing from offset idx on: for each line the offset
\* it starts at, the number of ROM bytes it covers, and its directive ("DW",
\* "DB", or "code" for the text of an instruction).  An exception ends the
\* listing.
RECURSIVE listing_lines(_, _)
listing_lines(st, idx) ==
    IF ~InRom(idx) THEN <<>>
    ELSE LET t == At(st.data_type, idx) IN
         IF (t \in {type_data16L, type_vector16L}) /\ ~InRom(idx + 1) THEN <<>>
         ELSE LET pair == \/ /\ t = type_data16L
                             /\ At(st.data_type, idx + 1) = type_data16H
                          \/ /\ t = type_vector16L
                             /\ At(st.data_type, idx + 1) = type_vector16H
                  n    == IF t = type_instruction THEN OperandRun(st, idx, 1)
                          ELSE IF pair THEN 2 ELSE 1
                  code == IF t = type_instruction THEN "code"
                          ELSE IF pair THEN "DW" ELSE "DB"
              IN <<[idx |-> idx, n |-> n, code |-> code]>> \o listing_lines(st, idx + n)

\* Label substitution on a set of addresses, in increasing order
RECURSIVE LookupAll(_, _)
LookupAll(st, addrs) ==
    IF addrs = {} THEN [st |-> st, exc |-> "none"]
    ELSE LET a == CHOOSE x \in addrs : \A y \in addrs : x <= y
             r == lookup_address(st, a, FALSE, "L_")
         IN IF r.exc # "none" THEN [st |-> r.st, exc |-> r.exc]
            ELSE LookupAll(r.st, addrs \ {a})

\* The cross-reference list: the destinations, then each one's sources
listing(st, source) ==
    LET body == ListingLines(st, 0) IN
    IF (body.exc # "none") \/ source THEN body
    ELSE LET dests == LookupAll(body.st, DOMAIN body.st.xref) IN
         IF dests.exc # "none" THEN dests
         ELSE LookupAll(dests.st,
                        UNION {{body.st.xref[d][i] : i \in 1..Len(body.st.xref[d])} :
                                  d \in DOMAIN body.st.xref})

-----------------------------------------------------------------------------
(* Bounds of the exploration. *)

MaxLen   == 3     \* ROM images of the decoder families have 1..MaxLen bytes
ClientLen == 2    \* ROM images of the client-call families have 1..ClientLen bytes
LoopLen  == 6     \* ROM images of the self-referencing family have LoopLen bytes
MaxHints == 2     \* hint calls the client makes in the hint family
MaxXrefs == 2     \* add_xref calls the client makes in the cross-reference family
MaxRuns  == 2     \* disassemble() calls the client makes
MaxFresh == 1     \* further decoders the client constructs on a one-byte ROM

-----------------------------------------------------------------------------
(* The client's calls. *)

storeVars == <<data_type, disassembly, comments, label_map, port_map, xref,
               vector_addrs, vector_dests, xref_calls>>

\* Hint addresses: the first and last byte of the ROM, the byte before it,
\* and the byte after it (both bytes of a 16-bit hint there are outside)
HintAddrs == {base_address, max_address, max_address + 1}
             \cup (IF base_address > 0 THEN {base_address - 1} ELSE {})

XrefAddrs == {base_address, base_address + 1}

\* The argument lists the client passes to disassemble()
ArgSets ==
    {Arguments(<<base_address>>, TRUE,  FALSE, NoRange, {}, <<>>),
     Arguments(<<base_address>>, FALSE, FALSE, NoRange, {}, <<>>),
     Arguments(<<base_address>>, TRUE,  TRUE,  NoRange, {}, <<>>),
     Arguments(<<base_address>>, TRUE,  FALSE, <<base_address, max_address + 1>>, {}, <<>>),
     Arguments(<<base_address>>, TRUE,  FALSE, NoRange, {max_address}, <<>>)}
    \cup (IF rom_len > 2             \* a breakpoint inside the ROM
          THEN {Arguments(<<base_address>>, TRUE, FALSE, NoRange, {base_address + 2}, <<>>)}
          ELSE {})
    \cup (IF cpu = "z80" THEN {}      \* rom_z80.disassemble takes no vectors
          ELSE {Arguments(<<>>, TRUE,  FALSE, NoRange, {}, <<base_address>>),
                Arguments(<<>>, FALSE, FALSE, NoRange, {}, <<base_address>>)})

Idle == status = "idle"

CallSetData8(address) ==
    /\ Idle
    /\ hints_left > 0
    /\ SetStore(set_data8(Store, address, None))
    /\ hints_left' = hints_left - 1
    /\ last' = Did("set_data8", address, None, TagAt(address), <<>>, "none")
    /\ UNCHANGED <<cpu, rom, base_address, fresh_left, status, exc, args, stack, xrefs_left,
                   runs, decodes, snap>>

CallSetData16(address) ==
    /\ Idle
    /\ hints_left > 0
    /\ SetStore(set_data16(Store, address, None))
    /\ hints_left' = hints_left - 1
    /\ last' = Did("set_data16", address, None, TagAt(address), <<>>, "none")
    /\ UNCHANGED <<cpu, rom, base_address, fresh_left, status, exc, args, stack, xrefs_left,
                   runs, decodes, snap>>

\* rom_z80 does not define set_vector: the base class raises
CallSetVector(address) ==
    /\ Idle
    /\ hints_left > 0
    /\ IF cpu = "z80"
       THEN /\ status' = "raised"
            /\ exc' = "NotImplementedError"
            /\ last' = Did("set_vector", address, None, TagAt(address), <<>>,
                           "NotImplementedError")
            /\ UNCHANGED storeVars
       ELSE /\ SetStore(set_vector(Store, address, None).st)
            /\ last' = Did("set_vector", address, None, TagAt(address),
                           <<set_vector(Store, address, None).vector>>, "none")
            /\ UNCHANGED <<status, exc>>
    /\ hints_left' = hints_left - 1
    /\ UNCHANGED <<cpu, rom, base_address, fresh_left, args, stack, xrefs_left, runs, decodes, snap>>

CallAddXref(source, dest) ==
    /\ Idle
    /\ xrefs_left > 0
    /\ SetStore(add_xref(Store, source, dest))
    /\ xrefs_left' = xrefs_left - 1
    /\ last' = Did("add_xref", dest, source, "NONE", <<>>, "none")
    /\ UNCHANGED <<cpu, rom, base_address, fresh_left, status, exc, args, stack, hints_left,
                   runs, decodes, snap>>

\* The client constructs another decoder on the same image, with empty label
\* and port maps, and goes on with it.  __init__ assigns the instance its own
\* data_type, disassembly, comments, label_map and port_map; xref,
\* vector_addrs and vector_dests are never assigned: they stay the objects
\* of the class rom_base, which the calls on every instance update in place.
Construct ==
    /\ Idle
    /\ fresh_left > 0
    /\ fresh_left' = fresh_left - 1
    /\ data_type' = [i \in 1..rom_len |-> type_unknown]
    /\ disassembly' = [i \in 1..rom_len |-> ""]
    /\ comments' = [i \in 1..rom_len |-> <<>>]
    /\ label_map' = <<>>
    /\ port_map' = <<>>
    /\ decodes' = Zeroes
    /\ last' = Did("construct", None, None, "NONE", <<>>, "none")
    /\ UNCHANGED <<cpu, rom, base_address, xref, vector_addrs, vector_dests, xref_calls,
                   status, exc, args, stack, hints_left, xrefs_left, runs, snap>>

\* listing(source): the store is what the lookups leave
CallListing(source) ==
    /\ Idle
    /\ LET r == listing(Store, source)
       IN /\ SetStore(r.st)
          /\ exc' = r.exc
          /\ status' = IF r.exc = "none" THEN "idle" ELSE "raised"
          /\ last' = Did("listing", None, None, "NONE", <<>>, r.exc)
    /\ UNCHANGED <<cpu, rom, base_address, fresh_left, args, stack, hints_left, xrefs_left,
                   runs, decodes, snap>>

\* The calls of disassemble() one client makes: the repeated call is explored
\* on the 8080 decoder at base 0, the other clients call it once.
RunsOf(c, b) == IF (c = "8080") /\ (b = 0) THEN MaxRuns ELSE 1

\* The calls the client repeats: those with labels, the default range and
\* no breakpoints
Repeated(a) ==
    a.create_labels /\ ~a.single_step /\ (a.valid_range = NoRange) /\ (a.breakpoints = {})

CallDisassemble(a) ==
    /\ Idle
    /\ runs < RunsOf(cpu, base_address)
    /\ (runs > 0) => ((a = args) /\ Repeated(a))
    /\ LET v   == VectorLoop(Store, a.vectors, a.create_labels, <<>>)
           stk == Unwind(a, <<Frame(a.entries \o v.vecptrs, None, <<>>)>>)
       IN /\ SetStore(v.st)
          /\ exc' = v.exc
          /\ stack' = IF v.exc = "none" THEN stk ELSE <<>>
          /\ status' = IF v.exc # "none" THEN "raised"
                       ELSE IF stk = <<>> THEN "idle" ELSE "running"
          /\ last' = Did("disassemble", None, None, "NONE", a.entries \o v.vecptrs, v.exc)
    /\ args' = a
    /\ runs' = runs + 1
    /\ decodes' = Zeroes
    /\ snap' = [store |-> Store,
                repeat |-> (runs > 0) /\ (last.op \in {"disassemble", "disasm_single"})]
    /\ UNCHANGED <<cpu, rom, base_address, fresh_left, hints_left, xrefs_left>>

\* One iteration of the entries loop whose condition holds: the range check,
\* disasm_single, and the recursive call on the successors it returned.
Step ==
    /\ status = "running"
    /\ LET n     == Len(stack)
           top   == stack[n]
           entry == Head(top.pending)
           rest  == Append(SubSeq(stack, 1, n - 1), [top EXCEPT !.pending = Tail(@)])
           idx   == entry - base_address
       IN
       IF (entry < base_address) \/ (entry > max_address)
       THEN /\ status' = "raised"
            /\ exc' = "IndexError"
            /\ stack' = <<>>
            /\ last' = Did("disassemble", entry, None, "NONE", <<>>, "IndexError")
            /\ UNCHANGED <<storeVars, decodes>>
       ELSE IF (At(data_type, idx) # type_instruction) /\ Recurs(stack, entry, data_type)
       THEN /\ status' = "diverged"
            /\ last' = Did("recursion", entry, None, At(data_type, idx), <<>>, "none")
            /\ UNCHANGED <<storeVars, decodes, exc, stack>>
       ELSE LET r   == disasm_single(Store, entry, args.create_labels)
                stk == Unwind(args, IF args.single_step THEN rest
                                    ELSE Append(rest, Frame(r.next, entry, data_type)))
            IN /\ SetStore(r.st)
               /\ exc' = r.exc
               /\ stack' = IF r.exc = "none" THEN stk ELSE <<>>
               /\ status' = IF r.exc # "none" THEN "raised"
                            ELSE IF stk = <<>> THEN "idle" ELSE "running"
               /\ decodes' = IF At(data_type, idx) # type_instruction
                             THEN [decodes EXCEPT ![idx + 1] = @ + 1] ELSE decodes
               /\ last' = Did("disasm_single", entry, None, At(data_type, idx),
                              r.next, r.exc)
    /\ UNCHANGED <<cpu, rom, base_address, fresh_left, args, hints_left, xrefs_left, runs, snap>>

-----------------------------------------------------------------------------
(* The instances explored: the state after the constructor. *)

Roms(alphabet, lo, hi) == UNION {[1..k -> alphabet] : k \in lo..hi}

\* 8080: NOP, STAX B, 08h (invalid), SHLD, STA, JMP, RST 0, D9h (invalid)
Alpha8080 == {0, 2, 8, 34, 50, 195, 199, 217}
\* 1802: IDL, BR, OUT 1, 68h (reserved), LSKP, SEP R0, LDI (SKP and LBR are
\* in AlphaPage)
Alpha1802 == {0, 48, 97, 104, 200, 208, 248}
\* Z80: NOP, LD (nn) A, LD B A, ED A0 (block), RST 0, CB, DD, ED
AlphaZ80  == {0, 50, 71, 160, 199, 203, 221, 237}
\* 8080 code that refers to itself: STA, JNZ, CNZ, which are also the two
\* bytes of the load address C4C2h
AlphaLoop == {50, 194, 196}
LoopBase  == (196 * 256) + 194
\* the ROMs of that family start with STA
LoopRoms  == {r \in Roms(AlphaLoop, LoopLen, LoopLen) : r[1] = 50}
\* a load address one byte before a page boundary, for the 1802's
\* page-relative branches, and the ROMs loaded there: IDL, BR, BZ, SKP, LBR, LBQ
PageEnd   == 255
AlphaPage == {0, 48, 50, 56, 192, 193}
\* 8080 code that ends a path or calls: NOP, HLT, RET, CALL, PCHL
AlphaTransfer == {0, 118, 201, 205, 233}
\* the ROMs of the client-call families: NOP, 08h, STA / IDL, 68h, BR
AlphaClient == {0, 8, 50}
\* the ROMs of the hint family: every one-byte ROM over AlphaClient, and the
\* longer ones over NOP and STA / IDL and BZ
AlphaHint == {0, 50}
HintRoms  == Roms(AlphaClient, 1, 1) \cup Roms(AlphaHint, 2, ClientLen)
\* a Z80 ROM of the hint family that holds an invalid ED form: ED 00
EdRom == <<237, 0>>
\* the load addresses of the hint family: with base 1 there is an address
\* before the ROM, for a 16-bit hint that straddles its first byte
HintBase == {0, 1}

DefaultArgs == Arguments(<<>>, TRUE, FALSE, NoRange, {}, <<>>)

Start(c, b, r, h, x, f) ==
    /\ cpu = c
    /\ base_address = b
    /\ rom = r
    /\ data_type = [i \in 1..Len(r) |-> type_unknown]
    /\ disassembly = [i \in 1..Len(r) |-> ""]
    /\ comments = [i \in 1..Len(r) |-> <<>>]
    /\ label_map = <<>>
    /\ port_map = <<>>
    /\ xref = <<>>
    /\ vector_addrs = <<>>
    /\ vector_dests = <<>>
    /\ xref_calls = <<>>
    /\ status = "idle"
    /\ exc = "none"
    /\ args = DefaultArgs
    /\ stack = <<>>
    /\ hints_left = h
    /\ xrefs_left = x
    /\ fresh_left = f
    /\ runs = 0
    /\ decodes = [i \in 1..Len(r) |-> 0]
    /\ snap = [store |-> <<>>, repeat |-> FALSE]
    /\ last = Did("init", None, None, "NONE", <<>>, "none")

Init ==
    \/ \E r \in Roms(Alpha8080, 1, MaxLen) : Start("8080", 0, r, 0, 0, 0)
    \/ \E r \in Roms(Alpha1802, 1, MaxLen) : Start("1802", 0, r, 0, 0, 0)
    \/ \E r \in Roms(AlphaPage, 1, MaxLen) : Start("1802", PageEnd, r, 0, 0, 0)
    \/ \E r \in Roms(AlphaZ80, 1, MaxLen) : Start("z80", 0, r, 0, 0, 0)
    \/ \E r \in Roms(AlphaTransfer, 1, MaxLen) : Start("8080", 0, r, 0, 0, 0)
    \/ \E r \in LoopRoms : Start("8080", LoopBase, r, 0, 0, 0)
    \/ \E r \in HintRoms : \E c \in {"8080", "1802", "z80"} : \E b \in HintBase :
          /\ (b = 0) \/ (Len(r) = 1)
          /\ Start(c, b, r, MaxHints, 0, 0)
    \/ Start("z80", 0, EdRom, MaxHints, 0, 0)
    \/ \E r \in Roms(AlphaClient, 1, ClientLen) : \E c \in {"8080", "1802", "z80"} :
          Start(c, 0, r, 0, MaxXrefs, IF Len(r) = 1 THEN MaxFresh ELSE 0)

Next ==
    \/ \E a \in HintAddrs : CallSetData8(a)
    \/ \E a \in HintAddrs : CallSetData16(a)
    \/ \E a \in HintAddrs : CallSetVector(a)
    \/ \E s \in XrefAddrs : \E d \in XrefAddrs : CallAddXref(s, d)
    \/ \E a \in ArgSets : CallDisassemble(a)
    \/ \E source \in BOOLEAN : CallListing(source)
    \/ Construct
    \/ Step

Spec == Init /\ [][Next]_vars

-----------------------------------------------------------------------------
(* The operand bytes a completed decode tags after the opcode byte: the     *)
(* decoded instruction's length is one more.                                *)

operands_8080(opcode) ==
    LET x == (opcode \div 64) % 4
        y == (opcode \div 8) % 8
        z == opcode % 8
        p == y \div 2
        q == y % 2
    IN CASE (x = 0) /\ (z = 1) /\ (q = 0) -> 2
         [] (x = 0) /\ (z = 2) /\ (p >= 2) -> 2
         [] (x = 0) /\ (z = 6) -> 1
         [] (x = 3) /\ (z \in {2, 4}) -> 2
         [] (x = 3) /\ (z = 3) /\ (y = 0) -> 2
         [] (x = 3) /\ (z = 3) /\ (y \in {2, 3}) -> 1
         [] (x = 3) /\ (z = 5) /\ (q = 1) /\ (p = 0) -> 2
         [] (x = 3) /\ (z = 6) -> 1
         [] OTHER -> 0

operands_1802(opcode) ==
    LET I == (opcode \div 16) % 16
        N == opcode % 16
    IN CASE (I = 3) /\ (N # 8) -> 1
         [] (I \in {7, 15}) /\ ~((N <= IF I = 7 THEN 11 ELSE 7) \/ (N = 14)) -> 1
         [] (I = 12) /\ ((N <= 3) \/ (N \in 9..11)) -> 2
         [] OTHER -> 0

operands_z80(opcode) ==
    LET x == (opcode \div 64) % 4
        y == (opcode \div 8) % 8
        z == opcode % 8
        p == y \div 2
        q == y % 2
    IN CASE (x = 0) /\ (z = 1) /\ (q = 0) -> 2
         [] (x = 0) /\ (z = 6) -> 1
         [] (x = 3) /\ (z = 3) /\ (y = 1) -> 1
         [] (x = 3) /\ (z = 5) /\ (q = 1) /\ (p = 2) -> 1
         [] (x = 3) /\ (z = 6) -> 1
         [] OTHER -> 0

\* The decoded length of the instruction at offset idx
InstrLen(idx) ==
    1 + (CASE cpu = "8080" -> operands_8080(At(rom, idx))
           [] cpu = "1802" -> operands_1802(At(rom, idx))
           [] OTHER        -> operands_z80(At(rom, idx)))

Offsets == 0..(rom_len - 1)

AfterRun == last.op \in {"disassemble", "disasm_single"}

-----------------------------------------------------------------------------
(* Termination and boundedness of the traversal. *)

\* C1: every non-single-step disassemble() call terminates.  A call does not
\* return exactly when it comes to a decode that repeats one still active on
\* its recursion path (Recurs); the claim is that no call comes to one.
C1_Terminates == status # "diverged"

\* C2: during one disassemble() run every offset is fully decoded (and so
\* tagged INSTRUCTION) at most once.
C2_DecodedOnce == \A i \in Offsets : At(decodes, i) <= 1

-----------------------------------------------------------------------------
(* Invariants of the type map. *)

\* C3: when no call is in progress, every offset tagged OPERAND follows an
\* offset tagged INSTRUCTION with only OPERAND offsets in between.
C3_OperandFollowsInstruction ==
    Idle => \A i \in Offsets :
               (At(data_type, i) = type_operand)
               => \E j \in 0..(i - 1) :
                     /\ At(data_type, j) = type_instruction
                     /\ \A k \in (j + 1)..i : At(data_type, k) = type_operand

\* C4: when no call is in progress, every offset tagged INSTRUCTION is followed
\* by the operand bytes of its instruction, all tagged OPERAND.
C4_OperandsFollowInstruction ==
    Idle => \A i \in Offsets :
               (At(data_type, i) = type_instruction)
               => \A k \in 1..(InstrLen(i) - 1) :
                     InRom(i + k) /\ (At(data_type, i + k) = type_operand)

\* C5: a second disassemble() call with the arguments of the first, made when
\* the first has returned, leaves the type map, the text, the comments, the
\* label and port maps, the cross-references and the vector registries as the
\* first call left them.
C5_SecondRunChangesNothing ==
    (Idle /\ (runs = 2) /\ snap.repeat /\ AfterRun)
    => /\ data_type = snap.store.data_type
       /\ disassembly = snap.store.disassembly
       /\ comments = snap.store.comments
       /\ label_map = snap.store.label_map
       /\ port_map = snap.store.port_map
       /\ xref = snap.store.xref
       /\ vector_addrs = snap.store.vector_addrs
       /\ vector_dests = snap.store.vector_dests

-----------------------------------------------------------------------------
(* The cross-reference index. *)

\* The sources passed with dest, each once, in the order of their first call
FirstInsertions(calls, dest) ==
    LET F[i \in 0..Len(calls)] ==
            IF i = 0 THEN <<>>
            ELSE IF (calls[i][2] = dest) /\ ~SeqContains(F[i - 1], calls[i][1])
                 THEN Append(F[i - 1], calls[i][1])
                 ELSE F[i - 1]
    IN F[Len(calls)]

\* C6: after any sequence of add_xref calls, xref[dest] holds the sources that
\* were passed with dest, each exactly once, in the order of first insertion.
C6_XrefDeduplicated ==
    \A i \in 1..Len(xref_calls) :
        LET dest == xref_calls[i][2]
        IN (dest \in DOMAIN xref) /\ (xref[dest] = FirstInsertions(xref_calls, dest))

-----------------------------------------------------------------------------
(* Errors and conflicts. *)

\* The opcodes the decoders take to their invalid-opcode branches
invalid_8080(opcode) ==
    \/ ((opcode \div 64) % 4 = 0) /\ (opcode % 8 = 0) /\ ((opcode \div 8) % 8 # 0)
    \/ opcode \in {217, 203, 221, 237, 253}       \* D9, CB, DD, ED, FD

invalid_1802(opcode) == opcode = 104              \* 68h

invalid_z80_ED(opcode2) ==
    LET x2 == (opcode2 \div 64) % 4
        y2 == (opcode2 \div 8) % 8
        z2 == opcode2 % 8
    IN (x2 \in {0, 3}) \/ ((x2 = 2) /\ ~((z2 <= 3) /\ (y2 >= 4)))

InvalidAt(address) ==
    LET idx == address - base_address
    IN CASE cpu = "8080" -> invalid_8080(At(rom, idx))
         [] cpu = "1802" -> invalid_1802(At(rom, idx))
         [] OTHER        -> /\ At(rom, idx) = 237
                            /\ InRom(idx + 1)
                            /\ invalid_z80_ED(At(rom, idx + 1))

\* The comment the invalid-opcode branch appends
ErrorLine(address) ==
    LET idx == address - base_address
    IN CASE cpu = "8080" -> "ERROR: invalid opcode " \o hex8_intel(At(rom, idx)) \o " "
         [] cpu = "1802" -> "ERROR: Reserved Opcode "
         [] OTHER        -> "ERROR: invalid opcode ED" \o hex8_intel(At(rom, idx + 1)) \o " "

\* C7: a decode of an invalid or reserved opcode tags the byte ERROR, appends
\* the ERROR comment to it and returns an empty successor list.
C7_InvalidOpcodeStops ==
    ((last.op = "disasm_single") /\ (last.old # type_instruction) /\ InvalidAt(last.address))
    => /\ TagAt(last.address) = type_error
       /\ SeqContains(At(comments, last.address - base_address), ErrorLine(last.address))
       /\ last.next = <<>>

\* The warnings that name a change of a byte's tag to new
ChangeWarnings(new) ==
    {WarningLine(old, new, acc) :
        old \in valid_types \ {type_unknown, new},
        acc \in {None} \cup (base_address..max_address)}

\* C8: whenever a byte that had a tag other than UNKNOWN is given a different
\* data or vector tag (by a hint the client calls or by the hint a decoder
\* calls for a data reference), a WARNING naming the change is appended to the
\* byte's comment.
C8_ConflictLeavesWarning ==
    [][\A i \in Offsets :
          ( /\ At(data_type', i) \in data_types
            /\ At(data_type', i) # At(data_type, i)
            /\ At(data_type, i) # type_unknown )
          => /\ Len(At(comments', i)) > Len(At(comments, i))
             /\ At(comments', i)[Len(At(comments', i))] \in ChangeWarnings(At(data_type', i))
      ]_vars

\* The tags disasm_single warns about before it decodes
Conflicting == {type_operand, type_error} \cup data_types

\* The warning the preamble of disasm_single appends for a conflicting tag
PreambleWarning(t) ==
    CASE t = type_operand -> "WARNING: Disassembling an operand. "
      [] t = type_error   -> "WARNING: Disassembling location flagged as error. "
      [] OTHER            -> "WARNING: Disassembling data. "

\* C9: disasm_single on a byte tagged OPERAND, DATA8, DATA16L/H, VECTOR16L/H or
\* ERROR appends its warning after the byte's previous comment and leaves the
\* byte tagged INSTRUCTION, or ERROR if the opcode is invalid.
C9_RedecodeWarnsAndRetags ==
    [][((last'.op = "disasm_single") /\ (last'.old \in Conflicting))
       => LET idx == last'.address - base_address
              old == At(comments, idx)
              new == At(comments', idx)
          IN /\ Len(new) > Len(old)
             /\ SubSeq(new, 1, Len(old) + 1) = Append(old, PreambleWarning(last'.old))
             /\ At(data_type', idx) = IF InvalidAt(last'.address) THEN type_error
                                      ELSE type_instruction
      ]_vars

-----------------------------------------------------------------------------
(* Hints outside the ROM. *)

HintOps == {"set_data8", "set_data16", "set_vector"}

\* All the bytes the hint op at address would tag lie outside the ROM
AllOutside(op, address) ==
    LET idx == address - base_address
    IN IF op = "set_data8" THEN ~InRom(idx)
       ELSE ~InRom(idx) /\ ~InRom(idx + 1)

\* C10, as claimed: a hint whose target bytes all lie outside the ROM leaves
\* data_type, comments, vector_addrs and vector_dests unchanged.
C10_OutsideHintChangesNothing ==
    [][((last'.op \in HintOps) /\ AllOutside(last'.op, last'.address))
       => /\ data_type' = data_type
          /\ comments' = comments
          /\ vector_addrs' = vector_addrs
          /\ vector_dests' = vector_dests
      ]_vars

\* C10, amended: such a hint leaves data_type, comments and vector_dests (and
\* the text, the maps and the cross-references) unchanged; set_data8 and
\* set_data16 leave vector_addrs unchanged too, while set_vector appends its
\* address to vector_addrs unless it is already there.
C10_OutsideHintFrame ==
    [][((last'.op \in HintOps) /\ AllOutside(last'.op, last'.address))
       => /\ data_type' = data_type
          /\ comments' = comments
          /\ vector_dests' = vector_dests
          /\ disassembly' = disassembly
          /\ label_map' = label_map
          /\ port_map' = port_map
          /\ xref' = xref
          /\ vector_addrs' =
                IF (last'.op = "set_vector") /\ (last'.exc = "none")
                   /\ ~SeqContains(vector_addrs, last'.address)
                THEN Append(vector_addrs, last'.address)
                ELSE vector_addrs
      ]_vars

\* C10's case: a set_vector outside the ROM has registered its address, on a
\* store that an earlier hint has already written to.
C10_Witness ==
    /\ last.op = "set_vector"
    /\ AllOutside(last.op, last.address)
    /\ vector_addrs = <<last.address>>
    /\ \E i \in Offsets : At(data_type, i) # type_unknown

-----------------------------------------------------------------------------
(* Vectors that straddle an end of the ROM. *)

\* Exactly one of the bytes address, address + 1 lies inside the ROM
OneInside(address) ==
    InRom(address - base_address) # InRom((address - base_address) + 1)

\* C11: set_vector on a location with exactly one byte inside the ROM tags
\* only that byte, returns the readable half with the missing half taken as
\* zero (never a null value), and enters the returned value in vector_dests.
C11_HalfVectorReturned ==
    [][((last'.op = "set_vector") /\ (last'.exc = "none") /\ OneInside(last'.address))
       => LET idx    == last'.address - base_address
              inside == IF InRom(idx) THEN idx ELSE idx + 1
              half   == IF InRom(idx) THEN At(rom, idx) ELSE At(rom, idx + 1) * 256
          IN /\ last'.next = <<half>>
             /\ SeqContains(vector_dests', half)
             /\ data_type' = Put(data_type, inside,
                                 IF InRom(idx) THEN type_vector16L ELSE type_vector16H)
      ]_vars

-----------------------------------------------------------------------------
(* Repeated hints. *)

\* The access_addr arguments of a hint: none (a client's call) or an address
\* (a decoder's call for a data reference)
AccessAddrs == {None, base_address}

\* C12: from every reachable store, each hint applied twice in a row with the
\* same arguments leaves the store that applying it once leaves (and
\* set_vector returns the same value); the second set_data8 adds no warning.
C12_HintsIdempotent ==
    \A a \in HintAddrs : \A acc \in AccessAddrs :
        /\ set_data8(set_data8(Store, a, acc), a, acc) = set_data8(Store, a, acc)
        /\ set_data16(set_data16(Store, a, acc), a, acc) = set_data16(Store, a, acc)
        /\ (cpu # "z80") =>
              LET once == set_vector(Store, a, acc)
              IN set_vector(once.st, a, acc) = once

\* C12's case: the client has called set_data8 twice on a byte a traversal had
\* tagged INSTRUCTION; the byte carries the one warning of the first call.
C12_Witness ==
    /\ last.op = "set_data8"
    /\ last.old = type_data8
    /\ hints_left = 0
    /\ InRom(last.address - base_address)
    /\ At(comments, last.address - base_address)
          = <<WarningLine(type_instruction, type_data8, None)>>

-----------------------------------------------------------------------------
(* Breakpoints and the valid range. *)

\* C13: at every depth of the recursion, disasm_single is only invoked on an
\* address that is inside the resolved valid range and is not a breakpoint.
C13_DecodesOnlyEligible ==
    [][(last'.op \in {"disasm_single", "recursion"})
       => /\ last'.address \notin args.breakpoints
          /\ last'.address >= valid_min(args)
          /\ last'.address <= valid_max(args)
      ]_vars

\* C13's case: a completed traversal with a breakpoint, whose last decode
\* returned the breakpoint as successor and left it undecoded.
C13_Witness ==
    /\ Idle
    /\ last.op = "disasm_single"
    /\ ~args.single_step
    /\ \E b \in args.breakpoints :
          /\ SeqContains(last.next, b)
          /\ TagAt(b) = type_unknown

-----------------------------------------------------------------------------
(* The cross-reference index after a traversal. *)

\* The destination of the 8080 jump, call or restart at offset idx whose
\* operand bytes are in the ROM; None for every other opcode
transfer_dest_8080(idx) ==
    LET opcode == At(rom, idx)
        x == (opcode \div 64) % 4
        y == (opcode \div 8) % 8
        z == opcode % 8
    IN IF (x = 3) /\ (z = 7) THEN y * 8
       ELSE IF (x = 3) /\ ((z \in {2, 4}) \/ ((z = 3) /\ (y = 0)) \/ ((z = 5) /\ (y = 1)))
               /\ InRom(idx + 2)
       THEN WordLE(idx)
       ELSE None

\* d was entered in xref by the decode of a jump, call or restart to d
InsertedByTraversal(d) ==
    \E i \in 1..Len(xref_calls) :
        LET s == xref_calls[i][1] IN
        /\ xref_calls[i][2] = d
        /\ cpu = "8080"
        /\ InRom(s - base_address)
        /\ transfer_dest_8080(s - base_address) = d

\* disasm_single has decoded address: it left the instruction's text, or the
\* comment of an invalid opcode
Decoded(address) ==
    \/ At(disassembly, address - base_address) # ""
    \/ SeqContains(At(comments, address - base_address), ErrorLine(address))

C15_TransfersCrossReferenced ==
    (Idle /\ AfterRun /\ (cpu = "8080"))
    => \A i \in Offsets :
          ((At(data_type, i) = type_instruction) /\ (transfer_dest_8080(i) # None))
          => LET d == transfer_dest_8080(i)
             IN /\ d \in DOMAIN xref
                /\ SeqContains(xref[d], base_address + i)

-----------------------------------------------------------------------------
(* The label map. *)

\* The prefixes the decoders, the vectors loop and lookup_address's default
\* pass to _lookup_a16_intel
Prefixes == {"D_", "J_", "C_", "V_", "L_"}

\* C16: label creation is first-write-wins.  In every reachable store a
\* lookup of an address that has a label returns that label, whatever the
\* prefix and the create flag, and leaves the store as it is; and no call on
\* a decoder changes or removes an entry of its label_map.  (Lookups are those of the 8080
\* and 1802 decoders; rom_z80 defines no lookup_address.)
C16_LabelsFirstWriteWins ==
    /\ [](\A a \in DOMAIN label_map : \A c \in BOOLEAN : \A p \in Prefixes :
             lookup_a16(Store, a, c, p) = [st |-> Store, name |-> label_map[a]])
    /\ [][(last'.op # "construct")
          => \A a \in DOMAIN label_map :
                (a \in DOMAIN label_map') /\ (label_map'[a] = label_map[a])]_vars

\* C16's case: a jump or call to an address that a data reference had
\* labelled D_ has been decoded, and the address still has its D_ label.
C16_Witness ==
    /\ cpu = "8080"
    /\ last.op = "disasm_single"
    /\ last.old # type_instruction
    /\ last.exc = "none"
    /\ args.create_labels
    /\ LET d == transfer_dest_8080(last.address - base_address)
       IN /\ d # None
          /\ d \in DOMAIN label_map
          /\ label_map[d] = "D_" \o HexPad(d, 4)

\* C17: as long as every disassemble() call was made with create_labels
\* false, label_map and port_map are the maps given to the constructor (the
\* empty maps), whatever the traversal, the decoders, the vectors loop, the
\* hints and listing() have done.
C17_NoLabelsCreated ==
    ((runs = 0) \/ ~args.create_labels)
    => (label_map = <<>>) /\ (port_map = <<>>)

\* C17's case: after a traversal without label creation that entered an
\* address with a special label in xref, listing() has completed.
C17_Witness ==
    /\ last.op = "listing"
    /\ last.exc = "none"
    /\ runs > 0
    /\ ~args.create_labels
    /\ \E d \in DOMAIN xref : InsertedByTraversal(d) /\ (d \in DOMAIN special_labels)

-----------------------------------------------------------------------------
(* Decoders on the same image. *)

\* C18: a newly constructed decoder starts with empty xref, vector_addrs and
\* vector_dests, whatever was done with the decoders constructed before it.
C18_FreshDecoderIsEmpty ==
    (last.op = "construct")
    => (xref = <<>>) /\ (vector_addrs = <<>>) /\ (vector_dests = <<>>)

-----------------------------------------------------------------------------
(* Worked examples. *)

\* The first disassemble() call on a new 8080 decoder of the ROM 00 00 at
\* base 0, with entries = [] and vectors = [0]
C19_Case ==
    /\ cpu = "8080" /\ rom = <<0, 0>> /\ base_address = 0
    /\ runs = 1 /\ args.entries = <<>> /\ args.vectors = <<0>>
    /\ snap.store = [data_type |-> <<type_unknown, type_unknown>>,
                     disassembly |-> <<"", "">>, comments |-> <<<<>>, <<>>>>,
                     label_map |-> <<>>, port_map |-> <<>>, xref |-> <<>>,
                     vector_addrs |-> <<>>, vector_dests |-> <<>>, xref_calls |-> <<>>]

\* The vectors loop has tagged the pair and made the pointer an entry
C19_Registered ==
    /\ last.next = <<0>> /\ status = "running"
    /\ data_type = <<type_vector16L, type_vector16H>>
    /\ vector_addrs = <<0>> /\ vector_dests = <<0>>

C19_Traversed(tag1) ==
    /\ At(data_type, 0) = type_instruction
    /\ At(comments, 0) = <<"WARNING: Disassembling data. ">>
    /\ At(data_type, 1) = tag1
    /\ vector_addrs = <<0>> /\ vector_dests = <<0>>

\* C19: in that call set_vector tags offset 0 VECTOR16L and offset 1 VECTOR16H
\* and the pointer 0000h is traversed as an entry; when the call has returned,
\* offset 0 is INSTRUCTION with a warning comment, offset 1 is OPERAND,
\* vector_addrs = [0] and vector_dests = [0].
C19_VectorExample ==
    C19_Case => /\ (last.op = "disassemble") => C19_Registered
                /\ (AfterRun /\ Idle) => C19_Traversed(type_operand)

\* C19 as the code has it: the NOP at offset 0 has no operand and falls
\* through to offset 1, which is decoded as a second NOP, INSTRUCTION with
\* the same warning.
C19_VectorExampleBothDecoded ==
    C19_Case => /\ (last.op = "disassemble") => C19_Registered
                /\ (AfterRun /\ Idle)
                   => /\ C19_Traversed(type_instruction)
                      /\ At(comments, 1) = <<"WARNING: Disassembling data. ">>
                      /\ disassembly = <<"NOP", "NOP">>
                      /\ xref = <<>>

C19_Witness == C19_Case /\ AfterRun /\ Idle /\ (last.address = 1)

\* The first decode of the first disassemble() call on a new Z80 decoder of
\* the ROM CB 47 at base 0, with entries = [0]
C20_Case ==
    /\ cpu = "z80" /\ rom = <<203, 71>> /\ base_address = 0
    /\ runs = 1 /\ args.entries = <<0>>
    /\ snap.store = [data_type |-> <<type_unknown, type_unknown>>,
                     disassembly |-> <<"", "">>, comments |-> <<<<>>, <<>>>>,
                     label_map |-> <<>>, port_map |-> <<>>, xref |-> <<>>,
                     vector_addrs |-> <<>>, vector_dests |-> <<>>, xref_calls |-> <<>>]
    /\ last.op = "disasm_single" /\ last.address = 0

\* C20: the decode tags offset 0 INSTRUCTION and offset 1 OPERAND, returns the
\* successor list [2], and writes the bit test of bit 0 of register A.
C20_BitTestExample ==
    C20_Case => /\ data_type = <<type_instruction, type_operand>>
                /\ last.next = <<2>>
                /\ At(disassembly, 0) = "BIT  0, A"

-----------------------------------------------------------------------------
(* Successor lists. *)

\* A decode by disasm_single that returned: the byte was not INSTRUCTION
\* before, and no exception was raised
Returned(c) ==
    /\ cpu = c /\ last.op = "disasm_single" /\ last.exc = "none"
    /\ last.old # type_instruction

OpcodeAt(address) == At(rom, address - base_address)

\* C21: an 1802 short branch (I = 3) at address a with operand byte disp has
\* its target in the page of the operand byte, ((a+1) & FF00h) | disp: BR
\* returns [target], the conditional branches [a+2, target], SKP [a+2].  The
\* ROM 30 00 loaded at 00FFh, entered at 00FFh, gives target 0100h and the
\* text BR J_0100.
C21_ShortBranchPage ==
    /\ (Returned("1802") /\ (OpcodeAt(last.address) \div 16 = 3))
       => LET a      == last.address
              N      == OpcodeAt(a) % 16
              disp   == OpcodeAt(a + 1)
              target == CHOOSE t \in 0..65535 :
                           (t % 256 = disp) /\ (t \div 256 = (a + 1) \div 256)
          IN last.next = IF N = 0 THEN <<target>>
                         ELSE IF N = 8 THEN <<a + 2>>
                         ELSE <<a + 2, target>>
    /\ ( /\ Returned("1802") /\ rom = <<48, 0>> /\ base_address = 255
         /\ last.address = 255 /\ args.create_labels /\ runs = 1 )
       => /\ last.next = <<256>>
          /\ At(disassembly, 0) = "BR   J_0100"
          /\ At(data_type, 1) = type_operand

\* a conditional short branch decoded in the last byte of a page
C21_Witness ==
    /\ Returned("1802") /\ OpcodeAt(last.address) = 50
    /\ last.address = 255 /\ last.next = <<257, 256 + OpcodeAt(256)>>

\* The first address of a successor list that the traversal may visit
FirstEligible(next) ==
    LET i == CHOOSE i \in 1..Len(next) :
                 /\ next[i] # None
                 /\ next[i] >= valid_min(args) /\ next[i] <= valid_max(args)
                 /\ next[i] \notin args.breakpoints
                 /\ \A j \in 1..(i - 1) :
                       \/ next[j] < valid_min(args) \/ next[j] > valid_max(args)
                       \/ next[j] \in args.breakpoints
    IN next[i]

\* Depth first, in the order returned: while the call goes on after a decode
\* that returned successors the traversal may visit, the next address it
\* visits is the first of them
SuccessorsFirst ==
    ( /\ status = "running" /\ last.op = "disasm_single" /\ ~args.single_step
      /\ \E i \in 1..Len(last.next) :
            /\ last.next[i] >= valid_min(args) /\ last.next[i] <= valid_max(args)
            /\ last.next[i] \notin args.breakpoints )
    => Head(stack[Len(stack)].pending) = FirstEligible(last.next)

\* The successor list of the jumps, branches and calls of the 8080 and the
\* 1802, with the list of the 8080's CALL given as a parameter
TransferLists(call(_, _)) ==
    /\ Returned("8080")
       => LET a    == last.address
              op   == OpcodeAt(a)
              word == OpcodeAt(a + 1) + (256 * OpcodeAt(a + 2))
          IN /\ (op = 195) => last.next = <<word>>
             /\ (op = 205) => last.next = call(a, word)
             /\ ((op \div 64 = 3) /\ (op % 8 \in {2, 4})) => last.next = <<a + 3, word>>
    /\ Returned("1802")
       => LET a      == last.address
              op     == OpcodeAt(a)
              N      == op % 16
              target == (((a + 1) \div 256) * 256) + OpcodeAt(a + 1)
              long   == (256 * OpcodeAt(a + 1)) + OpcodeAt(a + 2)
          IN /\ (op = 48) => last.next = <<target>>
             /\ ((op \div 16 = 3) /\ (N \notin {0, 8})) => last.next = <<a + 2, target>>
             /\ (op = 192) => last.next = <<long>>
             /\ ((op \div 16 = 12) /\ (N \in {1, 2, 3, 9, 10, 11}))
                => last.next = <<a + 3, long>>

CallTargetOnly(a, word) == <<word>>
CallBoth(a, word) == <<a + 3, word>>

\* C22: the traversal visits successors depth-first in the order the decoder
\* returns them, and every 8080 and 1802 decode returns [fall_through, target]
\* for a conditional jump, branch or call and exactly [target] for an
\* unconditional jump, branch or call.
C22_SuccessorOrder == SuccessorsFirst /\ TransferLists(CallTargetOnly)

\* C22 as the code has it: the unconditional CALL of the 8080 returns
\* [fall_through, target] like the conditional calls.
C22_SuccessorOrderCallReturns == SuccessorsFirst /\ TransferLists(CallBoth)

\* a conditional branch both of whose successors are visited, fall-through first
C22_Witness ==
    /\ status = "running" /\ last.op = "disasm_single" /\ ~args.single_step
    /\ Len(last.next) = 2 /\ last.next[1] # last.next[2]
    /\ Head(stack[Len(stack)].pending) = last.next[1]
    /\ Len(stack[Len(stack)].pending) = 2

\* C23: the 8080 decoder returns an empty successor list for RET, PCHL and
\* HLT, and exactly [target] for JMP.
C23_PathEnds ==
    Returned("8080")
    => LET a  == last.address
           op == OpcodeAt(a)
       IN /\ (op \in {201, 233, 118}) => last.next = <<>>
          /\ (op = 195) => last.next = <<OpcodeAt(a + 1) + (256 * OpcodeAt(a + 2))>>

\* C23 as the code has it: HLT is decoded with the MOV group and returns the
\* address that follows it.
C23_PathEndsButHlt ==
    Returned("8080")
    => LET a  == last.address
           op == OpcodeAt(a)
       IN /\ (op \in {201, 233}) => last.next = <<>>
          /\ (op = 118) => last.next = <<a + 1>>
          /\ (op = 195) => last.next = <<OpcodeAt(a + 1) + (256 * OpcodeAt(a + 2))>>

C23_Witness ==
    /\ Returned("8080") /\ OpcodeAt(last.address) = 118
    /\ At(disassembly, last.address - base_address) = "HLT"
    /\ last.address < max_address /\ status = "running"

-----------------------------------------------------------------------------
(* The listing. *)

\* C24: on every store that hints and traversal reach, listing() completes;
\* it renders a DATA16L byte followed by DATA16H, or a VECTOR16L byte followed
\* by VECTOR16H, as one DW line covering both bytes, and a DATA16L or
\* VECTOR16L byte without its companion, the last byte of the ROM included,
\* as a DB line of its own.
C24_ListingPairs ==
    (last.op = "listing")
    => /\ last.exc # "IndexError"
       /\ \A i \in 0..(rom_len - 1) :
             (At(data_type, i) \in {type_data16L, type_vector16L})
             => LET companion == IF At(data_type, i) = type_data16L
                                 THEN type_data16H ELSE type_vector16H
                    paired == InRom(i + 1) /\ (At(data_type, i + 1) = companion)
                    lines  == listing_lines(Store, 0)
                IN \E k \in 1..Len(lines) :
                      lines[k] = [idx |-> i, n |-> IF paired THEN 2 ELSE 1,
                                  code |-> IF paired THEN "DW" ELSE "DB"]

-----------------------------------------------------------------------------
(* What a decode leaves alone. *)

\* The offsets a decode at offset idx may tag as its own bytes: the opcode,
\* and up to two operand bytes (three after the Z80's ED prefix)
OwnOffsets(idx) == idx..(idx + IF cpu = "z80" THEN 3 ELSE 2)

\* The addresses an absolute data reference of the instruction at idx may
\* name: the words made of two of its consecutive operand bytes
ReferencedWords(idx) ==
    {At(rom, j) + (256 * At(rom, j + 1)) :
        j \in {k \in (OwnOffsets(idx) \ {idx}) : InRom(k + 1) /\ (k + 1 \in OwnOffsets(idx))}}

C26_DecodedIsSkipped ==
    [][((last'.op = "disasm_single") /\ (last'.old = type_instruction))
       => /\ last'.next = <<>>
          /\ last'.exc = "none"
          /\ UNCHANGED <<data_type, disassembly, comments, label_map, port_map,
                         xref, vector_addrs, vector_dests>>
      ]_vars

\* the traversal came back to a decoded instruction that has successors
C26_Witness ==
    /\ last.op = "disasm_single" /\ last.old = type_instruction
    /\ cpu = "8080" /\ OpcodeAt(last.address) = 195
    /\ At(disassembly, last.address - base_address) # ""

-----------------------------------------------------------------------------
(* Errors. *)

\* C27: with the default valid_range, disassemble() never fails with an
\* out-of-range or index error, whatever the ROM holds and whatever the
\* entries are, also when a multi-byte instruction starts within the last
\* bytes of the ROM.
C27_NoIndexError ==
    ((args.valid_range = NoRange) /\ (last.op \in {"disassemble", "disasm_single"}))
    => (last.exc # "IndexError")

-----------------------------------------------------------------------------
(* Text and comments. *)

\* C28: in every reachable store, disassembly[i] is non-empty only if
\* data_type[i] is INSTRUCTION or ERROR; a byte re-tagged OPERAND, DATA8,
\* DATA16L/H or VECTOR16L/H holds no disassembly text.
C28_TextOnlyAtInstructions ==
    \A i \in 0..(rom_len - 1) :
       (At(disassembly, i) # "") => (At(data_type, i) \in {type_instruction, type_error})

\* The number of bytes of the 8080 instruction with opcode op
Length8080(op) ==
    LET x == (op \div 64) % 4
        y == (op \div 8) % 8
        z == op % 8
    IN IF x = 0 THEN (IF (z = 1) /\ (y % 2 = 0) THEN 3
                      ELSE IF (z = 2) /\ (y >= 4) THEN 3
                      ELSE IF z = 6 THEN 2 ELSE 1)
       ELSE IF x = 3 THEN (IF z \in {2, 4} THEN 3
                           ELSE IF z = 3 THEN (IF y = 0 THEN 3 ELSE IF y \in {2, 3} THEN 2 ELSE 1)
                           ELSE IF (z = 5) /\ (y = 1) THEN 3
                           ELSE IF z = 6 THEN 2 ELSE 1)
       ELSE 1

\* The lines of a listing that completed cover the offsets 0..L-1 in
\* increasing order, each offset once
ClustersPartition ==
    LET lines == listing_lines(Store, 0) IN
    /\ Len(lines) > 0
    /\ lines[1].idx = 0
    /\ \A k \in 1..(Len(lines) - 1) : lines[k + 1].idx = lines[k].idx + lines[k].n
    /\ lines[Len(lines)].idx + lines[Len(lines)].n = rom_len
    /\ \A k \in 1..Len(lines) : lines[k].n >= 1

\* C29: in listing(), the byte clusters partition the offsets 0..L-1 in
\* increasing order, and the cluster of a line that starts at an INSTRUCTION
\* byte is exactly the instruction's own bytes, the opcode and the operand
\* bytes its decode consumed (here for the 8080, by the length of the opcode).
C29_ClusterIsInstruction ==
    ((last.op = "listing") /\ (last.exc = "none"))
    => /\ ClustersPartition
       /\ (cpu = "8080")
          => LET lines == listing_lines(Store, 0) IN
             \A k \in 1..Len(lines) :
                (lines[k].code = "code") => lines[k].n = Length8080(At(rom, lines[k].idx))

\* C29 as the code has it: the cluster of an instruction line is the opcode
\* byte and the bytes after it for as long as they are tagged OPERAND.
C29_ClusterIsOperandRun ==
    ((last.op = "listing") /\ (last.exc = "none"))
    => /\ ClustersPartition
       /\ LET lines == listing_lines(Store, 0) IN
          \A k \in 1..Len(lines) :
             (lines[k].code = "code")
             => LET i == lines[k].idx
                    n == lines[k].n
                IN /\ At(data_type, i) = type_instruction
                   /\ \A j \in (i + 1)..(i + n - 1) : At(data_type, j) = type_operand
                   /\ InRom(i + n) => (At(data_type, i + n) # type_operand)

\* the line of a JMP whose second operand byte was decoded as an instruction
C29_Witness ==
    /\ last.op = "listing" /\ last.exc = "none"
    /\ cpu = "8080" /\ rom = <<195, 2, 0>>
    /\ data_type = <<type_instruction, type_operand, type_instruction>>
    /\ listing_lines(Store, 0) = <<[idx |-> 0, n |-> 2, code |-> "code"],
                                   [idx |-> 2, n |-> 1, code |-> "code"]>>

IsPrefix(s, t) == (Len(s) <= Len(t)) /\ (SubSeq(t, 1, Len(s)) = s)

\* C30: per-byte comments are append-only: for every offset and every
\* operation on a decoder (hint, disasm_single, disassemble), the comment
\* before the operation is a prefix of the comment after it.
C30_CommentsAppendOnly ==
    [][(last'.op # "construct")
       => \A i \in 0..(rom_len - 1) : IsPrefix(At(comments, i), At(comments', i))]_vars

====
